---- MODULE Spec2Model ----
(***************************************************************************)
(* ManagedIdentityCredential (azure-identity), synchronous and             *)
(* asynchronous variants: the constructor's choice of a managed-identity   *)
(* provider from the process environment, and the forwarding of            *)
(* get_token, __enter__/__aenter__, __exit__ and close to that provider.   *)
(***************************************************************************)
EXTENDS Naturals, Sequences, FiniteSets, TLC

VARIABLES env, status, conv, credential, kwargs, raised, last, closes, transport

vars == <<env, status, conv, credential, kwargs, raised, last, closes, transport>>

(***************************************************************************)
(* Values                                                                  *)
(***************************************************************************)
\* Python's None: an unset environment variable, an absent keyword argument,
\* the initial self._credential.
None == "None"

IDENTITY_ENDPOINT == "IDENTITY_ENDPOINT"
IDENTITY_HEADER == "IDENTITY_HEADER"
IDENTITY_SERVER_THUMBPRINT == "IDENTITY_SERVER_THUMBPRINT"
IMDS_ENDPOINT == "IMDS_ENDPOINT"
MSI_ENDPOINT == "MSI_ENDPOINT"
MSI_SECRET == "MSI_SECRET"
AZURE_AUTHORITY_HOST == "AZURE_AUTHORITY_HOST"
AZURE_TENANT_ID == "AZURE_TENANT_ID"
AZURE_FEDERATED_TOKEN_FILE == "AZURE_FEDERATED_TOKEN_FILE"
AZURE_CLIENT_ID == "AZURE_CLIENT_ID"

\* EnvironmentVariables.WORKLOAD_IDENTITY_VARS: defined in _constants.py; the
\* constructor indexes os.environ with the tenant ID and the token file after
\* the test and reads the client ID separately, the authority host is the
\* variable "implied by the workload-identity signal set".
WORKLOAD_IDENTITY_VARS == {AZURE_AUTHORITY_HOST, AZURE_TENANT_ID, AZURE_FEDERATED_TOKEN_FILE}

\* The environment variables the constructor reads.
EnvVars ==
    {IDENTITY_ENDPOINT, IDENTITY_HEADER, IDENTITY_SERVER_THUMBPRINT, IMDS_ENDPOINT,
     MSI_ENDPOINT, MSI_SECRET, AZURE_CLIENT_ID} \cup WORKLOAD_IDENTITY_VARS

\* What os.environ.get(var) can return: None (unset), the empty string, a
\* non-empty string.
EnvValues == {None, "", "x"}

\* The client_id keyword argument: not passed, empty, a client ID.
ClientIdArgs == {None, "", "kw"}

Conventions == {"sync", "async"}

\* Bound: at most this many variables are set in the environments the
\* lifecycle is checked over.
MaxSet == 1

\* Python truthiness of an Optional[str].
Truthy(v) == v # None /\ v # ""

\* os.environ.get(var) on the environment e.
Get(e, var) == e[var]

(***************************************************************************)
(* The constructor's resolution                                            *)
(***************************************************************************)
Provider(kind, client_id, tenant_id, file) ==
    [kind |-> kind, client_id |-> client_id, tenant_id |-> tenant_id, file |-> file]

\* self._credential = None: no provider is held.
NoCredential == Provider(None, None, None, None)

\* How a run of __init__ ends: self._credential as assigned, or the exception.
Assigned(p) == [raised |-> None, credential |-> p]

Raise(exception) == [raised |-> exception, credential |-> NoCredential]

\* A provider constructed as Kind(**kwargs): client_id stays in kwargs.
PlainProvider(kind, client_id) == Assigned(Provider(kind, client_id, None, None))

\* Mutant of IdentityEndpointBranch: IMDS_ENDPOINT is tested before
\* IDENTITY_HEADER.
IdentityEndpointBranchArcFirst(e, c, client_id) ==
    IF Truthy(Get(e, IMDS_ENDPOINT))
    THEN PlainProvider("AzureArc", client_id)
    ELSE IF Truthy(Get(e, IDENTITY_HEADER))
         THEN IF Truthy(Get(e, IDENTITY_SERVER_THUMBPRINT))
              THEN PlainProvider("ServiceFabric", client_id)
              ELSE PlainProvider("AppService", client_id)
         ELSE IF c = "async"
              THEN PlainProvider("CloudShell", client_id)
              ELSE Assigned(NoCredential)

\* if os.environ.get(IDENTITY_ENDPOINT): ... (the branch's body)
IdentityEndpointBranch(e, c, client_id) ==
    IF Truthy(Get(e, IDENTITY_HEADER))
    THEN IF Truthy(Get(e, IDENTITY_SERVER_THUMBPRINT))
         THEN PlainProvider("ServiceFabric", client_id)
         ELSE PlainProvider("AppService", client_id)
    ELSE IF Truthy(Get(e, IMDS_ENDPOINT))
         THEN PlainProvider("AzureArc", client_id)
         ELSE IF c = "async"
              THEN PlainProvider("CloudShell", client_id)
              ELSE Assigned(NoCredential)

\* elif os.environ.get(MSI_ENDPOINT): ... (the branch's body)
MsiEndpointBranch(e, client_id) ==
    IF Truthy(Get(e, MSI_SECRET))
    THEN PlainProvider("AzureML", client_id)
    ELSE PlainProvider("CloudShell", client_id)

\* Mutant of WorkloadIdentityGuard: the exclude flag is not consulted.
WorkloadIdentityGuardIgnoringExclude(e, exclude) ==
    \A var \in WORKLOAD_IDENTITY_VARS : Truthy(Get(e, var))

\* all(os.environ.get(var) for var in WORKLOAD_IDENTITY_VARS)
\*   and not exclude_workload_identity
WorkloadIdentityGuard(e, exclude) ==
    (\A var \in WORKLOAD_IDENTITY_VARS : Truthy(Get(e, var))) /\ ~exclude

\* Mutant of ClientId: the environment variable is preferred to the argument.
ClientIdEnvironmentFirst(e, client_id) ==
    IF Truthy(Get(e, AZURE_CLIENT_ID)) THEN Get(e, AZURE_CLIENT_ID) ELSE client_id

\* kwargs.pop("client_id", None) or os.environ.get(AZURE_CLIENT_ID)
ClientId(e, client_id) ==
    IF Truthy(client_id) THEN client_id ELSE Get(e, AZURE_CLIENT_ID)

\* The workload-identity branch's body.
WorkloadIdentityBranch(e, client_id) ==
    IF ~Truthy(ClientId(e, client_id))
    THEN Raise("ValueError")
    ELSE Assigned(Provider("WorkloadIdentity", ClientId(e, client_id),
                           e[AZURE_TENANT_ID], e[AZURE_FEDERATED_TOKEN_FILE]))

\* Mutant of Resolve: the workload-identity test precedes the MSI_ENDPOINT
\* test.
ResolveWorkloadIdentityFirst(e, c, exclude, client_id) ==
    IF Truthy(Get(e, IDENTITY_ENDPOINT))
    THEN IdentityEndpointBranch(e, c, client_id)
    ELSE IF WorkloadIdentityGuard(e, exclude)
         THEN WorkloadIdentityBranch(e, client_id)
         ELSE IF Truthy(Get(e, MSI_ENDPOINT))
              THEN MsiEndpointBranch(e, client_id)
              ELSE PlainProvider("Imds", client_id)

\* Mutant of Resolve: the final else branch is missing.
ResolveWithoutFallback(e, c, exclude, client_id) ==
    IF Truthy(Get(e, IDENTITY_ENDPOINT))
    THEN IdentityEndpointBranch(e, c, client_id)
    ELSE IF Truthy(Get(e, MSI_ENDPOINT))
         THEN MsiEndpointBranch(e, client_id)
         ELSE IF WorkloadIdentityGuard(e, exclude)
              THEN WorkloadIdentityBranch(e, client_id)
              ELSE Assigned(NoCredential)

\* The whole if/elif chain of __init__, after self._credential = None.
Resolve(e, c, exclude, client_id) ==
    IF Truthy(Get(e, IDENTITY_ENDPOINT))
    THEN IdentityEndpointBranch(e, c, client_id)
    ELSE IF Truthy(Get(e, MSI_ENDPOINT))
         THEN MsiEndpointBranch(e, client_id)
         ELSE IF WorkloadIdentityGuard(e, exclude)
              THEN WorkloadIdentityBranch(e, client_id)
              ELSE PlainProvider("Imds", client_id)

(***************************************************************************)
(* State                                                                   *)
(***************************************************************************)
\* How a call ends: it returns a value or raises an exception.
Return(value) == [result |-> "return", value |-> value]

Raised(exception) == [result |-> "raise", value |-> exception]

\* The last call on the facade: the operation and its arguments, the calls it
\* made on the held provider, how the provider's call ended and how the
\* facade's call ended.
Call(op, scopes, claims, tenant_id, calls, provided, outcome) ==
    [op |-> op, scopes |-> scopes, claims |-> claims, tenant_id |-> tenant_id,
     calls |-> calls, provided |-> provided, outcome |-> outcome]

NoCall == Call("none", <<>>, None, None, <<>>, Return(None), Return(None))

\* The environments with every variable unset, empty or set.
Environments == [EnvVars -> EnvValues]

NumSet(e) == Cardinality({var \in EnvVars : e[var] # None})

Fresh ==
    /\ status = "unconstructed"
    /\ conv = None
    /\ credential = NoCredential
    /\ kwargs = [exclude |-> FALSE, client_id |-> None]
    /\ raised = None
    /\ last = NoCall
    /\ closes = "never"
    /\ transport = "new"

\* ManagedIdentityCredential.__init__
Construct(c, exclude, client_id) ==
    /\ status = "unconstructed"
    /\ conv' = c
    /\ kwargs' = [exclude |-> exclude, client_id |-> client_id]
    /\ LET r == Resolve(env, c, exclude, client_id) IN
       /\ status' = IF r.raised = None THEN "constructed" ELSE "failed"
       /\ raised' = r.raised
       /\ credential' = r.credential
    /\ UNCHANGED <<env, last, closes, transport>>

(***************************************************************************)
(* The held provider, as the facade sees it                                *)
(***************************************************************************)
\* if self._credential: a provider object is truthy, None is not.
Held == credential # NoCredential

Scopes == {<<"scope1">>, <<"scope2">>}

Claims == {None, "claims"}

TenantIds == {None, "tenant"}

\* How a provider's get_token can end: an AccessToken, or a failure of its own.
ProviderOutcomes ==
    {Return("token1"), Return("token2"),
     Raised("CredentialUnavailableError"), Raised("ClientAuthenticationError")}

\* A call on the held provider.
DelegateCall(method, scopes, claims, tenant_id) ==
    [method |-> method, scopes |-> scopes, claims |-> claims, tenant_id |-> tenant_id]

\* The provider's transport after its __enter__ / __aenter__.
ProviderEnter(t) == "open"

\* The provider's transport after its __exit__ / close: closing a closed
\* transport leaves it closed, and neither raises.
ProviderExit(t) == "closed"

\* The log_get_token / log_get_token_async decorator: logs the outcome,
\* returns the token or re-raises the exception.
log_get_token(outcome) == outcome

\* closes after one more close().
Closed(n) == IF n = "never" THEN "once" ELSE "repeatedly"

(***************************************************************************)
(* The facade's operations                                                 *)
(***************************************************************************)
\* os.environ changes: a variable is set, emptied or unset.
SetEnv(var, value) ==
    /\ env[var] # value
    /\ env' = [env EXCEPT ![var] = value]
    /\ NumSet(env') <= MaxSet
    /\ UNCHANGED <<status, conv, credential, kwargs, raised, last, closes, transport>>

\* self._credential.get_token(*scopes, claims=claims, tenant_id=tenant_id, **kwargs)
ForwardGetToken(scopes, claims, tenant_id) ==
    <<DelegateCall("get_token", scopes, claims, tenant_id)>>

\* Mutant of GetToken: a failed provider call is retried once.
GetTokenRetrying(scopes, claims, tenant_id) ==
    /\ status = "constructed"
    /\ IF ~Held
       THEN last' = Call("get_token", scopes, claims, tenant_id, <<>>, Return(None),
                         log_get_token(Raised("CredentialUnavailableError")))
       ELSE \E provided \in ProviderOutcomes, again \in ProviderOutcomes :
                last' = IF provided.result = "raise"
                        THEN Call("get_token", scopes, claims, tenant_id,
                                  ForwardGetToken(scopes, claims, tenant_id)
                                      \o ForwardGetToken(scopes, claims, tenant_id),
                                  again, log_get_token(again))
                        ELSE Call("get_token", scopes, claims, tenant_id,
                                  ForwardGetToken(scopes, claims, tenant_id), provided,
                                  log_get_token(provided))
    /\ UNCHANGED <<env, status, conv, credential, kwargs, raised, closes, transport>>

\* ManagedIdentityCredential.get_token
GetToken(scopes, claims, tenant_id) ==
    /\ status = "constructed"
    /\ IF ~Held
       THEN last' = Call("get_token", scopes, claims, tenant_id, <<>>, Return(None),
                         log_get_token(Raised("CredentialUnavailableError")))
       ELSE \E provided \in ProviderOutcomes :
                last' = Call("get_token", scopes, claims, tenant_id,
                             ForwardGetToken(scopes, claims, tenant_id), provided,
                             log_get_token(provided))
    /\ UNCHANGED <<env, status, conv, credential, kwargs, raised, closes, transport>>

\* ManagedIdentityCredential.__enter__ / __aenter__
Enter ==
    /\ status = "constructed"
    /\ IF Held
       THEN /\ transport' = ProviderEnter(transport)
            /\ last' = Call("enter", <<>>, None, None,
                            <<DelegateCall(IF conv = "async" THEN "__aenter__" ELSE "__enter__",
                                           <<>>, None, None)>>,
                            Return(None), Return("self"))
       ELSE /\ transport' = transport
            /\ last' = Call("enter", <<>>, None, None, <<>>, Return(None), Return("self"))
    /\ UNCHANGED <<env, status, conv, credential, kwargs, raised, closes>>

\* Mutant of Release: the provider is called without testing that one is held.
ReleaseUnguarded(op) ==
    IF Held
    THEN /\ transport' = ProviderExit(transport)
         /\ last' = Call(op, <<>>, None, None,
                         <<DelegateCall(IF conv = "async" THEN "close" ELSE "__exit__",
                                        <<>>, None, None)>>,
                         Return(None), Return(None))
    ELSE /\ transport' = transport
         /\ last' = Call(op, <<>>, None, None, <<>>, Return(None), Raised("AttributeError"))

\* The body shared by __exit__ and close: synchronous __exit__ forwards to the
\* provider's __exit__, asynchronous close awaits the provider's close.
Release(op) ==
    IF Held
    THEN /\ transport' = ProviderExit(transport)
         /\ last' = Call(op, <<>>, None, None,
                         <<DelegateCall(IF conv = "async" THEN "close" ELSE "__exit__",
                                        <<>>, None, None)>>,
                         Return(None), Return(None))
    ELSE /\ transport' = transport
         /\ last' = Call(op, <<>>, None, None, <<>>, Return(None), Return(None))

\* ManagedIdentityCredential.__exit__; AsyncContextManager.__aexit__, which
\* awaits close().
Exit ==
    /\ status = "constructed"
    /\ Release("exit")
    /\ UNCHANGED <<env, status, conv, credential, kwargs, raised, closes>>

\* Mutant of Close: the provider is dropped once it is closed.
CloseDroppingProvider ==
    /\ status = "constructed"
    /\ Release("close")
    /\ closes' = Closed(closes)
    /\ credential' = NoCredential
    /\ UNCHANGED <<env, status, conv, kwargs, raised>>

\* ManagedIdentityCredential.close
Close ==
    /\ status = "constructed"
    /\ Release("close")
    /\ closes' = Closed(closes)
    /\ UNCHANGED <<env, status, conv, credential, kwargs, raised>>

\* A fresh process: nothing set, no facade yet. The facade is constructed with
\* no keyword arguments; SpecResolve covers the constructor's arguments.
Init ==
    /\ env = [var \in EnvVars |-> None]
    /\ Fresh

Next ==
    \/ \E var \in EnvVars, value \in EnvValues : SetEnv(var, value)
    \/ \E c \in Conventions : Construct(c, FALSE, None)
    \/ \E scopes \in Scopes, claims \in Claims, tenant_id \in TenantIds :
           GetToken(scopes, claims, tenant_id)
    \/ Enter
    \/ Exit
    \/ Close

Spec == Init /\ [][Next]_vars

(***************************************************************************)
(* Resolution alone                                                        *)
(***************************************************************************)
\* Construction over every environment.
InitResolve ==
    /\ env \in Environments
    /\ Fresh

NextResolve ==
    \E c \in Conventions, exclude \in BOOLEAN, client_id \in ClientIdArgs :
        Construct(c, exclude, client_id)

SpecResolve == InitResolve /\ [][NextResolve]_vars

(***************************************************************************)
(* Properties of the resolution (checked under SpecResolve, where the      *)
(* environment is the one the constructor read)                            *)
(***************************************************************************)
\* A signal is present when its variable holds a non-empty string.
Present(var) == env[var] = "x"

Absent(var) == env[var] \in {None, ""}

Built == status # "unconstructed"

Selected(kind) == status = "constructed" /\ credential.kind = kind

\* The four workload-identity signals: authority host, tenant ID, federated
\* token file and client ID.
WorkloadIdentitySignals ==
    /\ \A var \in WORKLOAD_IDENTITY_VARS : Present(var)
    /\ Present(AZURE_CLIENT_ID)

\* C2: with IDENTITY_ENDPOINT present and IDENTITY_HEADER absent, both
\* conventions select AzureArc when IMDS_ENDPOINT is present and CloudShell when
\* it is absent, and neither is left holding no provider.
C2_HeaderlessIdentityEndpoint ==
    (Built /\ Present(IDENTITY_ENDPOINT) /\ Absent(IDENTITY_HEADER))
        => /\ Selected(IF Present(IMDS_ENDPOINT) THEN "AzureArc" ELSE "CloudShell")
           /\ credential # NoCredential

\* C3 as stated: with all the workload-identity variables present, construction
\* selects WorkloadIdentity when the exclude flag is false, and one of AzureML,
\* CloudShell and Imds (never WorkloadIdentity) when it is true.
C3_WorkloadIdentityWheneverPresent ==
    (status = "constructed" /\ WorkloadIdentitySignals)
        => IF kwargs.exclude
           THEN credential.kind \in {"AzureML", "CloudShell", "Imds"}
           ELSE credential.kind = "WorkloadIdentity"

\* C3 as amended: with all the workload-identity variables present,
\* construction selects WorkloadIdentity when the exclude flag is false and
\* IDENTITY_ENDPOINT and MSI_ENDPOINT are both absent; with the flag true it
\* never selects WorkloadIdentity and selects Imds when both endpoints are
\* absent, AzureML or CloudShell when only MSI_ENDPOINT is present; when
\* IDENTITY_ENDPOINT is present that branch decides whatever the flag is.
C3_WorkloadIdentityAfterEndpoints ==
    (Built /\ WorkloadIdentitySignals)
        => /\ status = "constructed"
           /\ kwargs.exclude => credential.kind # "WorkloadIdentity"
           /\ (Absent(IDENTITY_ENDPOINT) /\ Absent(MSI_ENDPOINT))
                  => credential.kind = IF kwargs.exclude THEN "Imds" ELSE "WorkloadIdentity"
           /\ (Absent(IDENTITY_ENDPOINT) /\ Present(MSI_ENDPOINT))
                  => credential.kind \in {"AzureML", "CloudShell"}
           /\ Present(IDENTITY_ENDPOINT)
                  => credential.kind \in {"ServiceFabric", "AppService", "AzureArc",
                                          "CloudShell", None}

\* The exclude flag turned a workload-identity environment into Imds.
C3_Witness ==
    /\ Selected("Imds")
    /\ WorkloadIdentitySignals
    /\ kwargs.exclude
    /\ Absent(IDENTITY_ENDPOINT)
    /\ Absent(MSI_ENDPOINT)

\* The constructor reaches the workload-identity branch.
WorkloadIdentityResolution ==
    /\ Built
    /\ Absent(IDENTITY_ENDPOINT)
    /\ Absent(MSI_ENDPOINT)
    /\ \A var \in WORKLOAD_IDENTITY_VARS : Present(var)
    /\ ~kwargs.exclude

ArgumentGiven == kwargs.client_id \notin {None, ""}

\* C4: workload-identity resolution (AZURE_TENANT_ID and
\* AZURE_FEDERATED_TOKEN_FILE set) with no client ID in the argument or in
\* AZURE_CLIENT_ID fails in the constructor with the configuration error and
\* leaves no facade; with a client ID available the provider gets the argument
\* when one was given and AZURE_CLIENT_ID otherwise.
C4_ClientIdResolvedAtConstruction ==
    WorkloadIdentityResolution
        => IF ~ArgumentGiven /\ Absent(AZURE_CLIENT_ID)
           THEN status = "failed" /\ raised = "ValueError" /\ credential = NoCredential
           ELSE /\ Selected("WorkloadIdentity")
                /\ raised = None
                /\ credential.client_id =
                       IF ArgumentGiven THEN kwargs.client_id ELSE env[AZURE_CLIENT_ID]

\* Construction failed for want of a client ID: the argument and
\* AZURE_CLIENT_ID were both given, and both empty.
C4_Witness ==
    /\ status = "failed"
    /\ raised = "ValueError"
    /\ WorkloadIdentityResolution
    /\ env[AZURE_CLIENT_ID] = ""
    /\ kwargs.client_id = ""

\* C5: with IDENTITY_ENDPOINT and IDENTITY_HEADER present, construction selects
\* ServiceFabric if IDENTITY_SERVER_THUMBPRINT is present and AppService if it
\* is absent, whatever the other signals and the exclude flag are.
C5_IdentityHeaderBranch ==
    (Built /\ Present(IDENTITY_ENDPOINT) /\ Present(IDENTITY_HEADER))
        => Selected(IF Present(IDENTITY_SERVER_THUMBPRINT)
                    THEN "ServiceFabric" ELSE "AppService")

\* AppService selected although every other signal is present.
C5_Witness ==
    /\ Selected("AppService")
    /\ Absent(IDENTITY_SERVER_THUMBPRINT)
    /\ \A var \in EnvVars \ {IDENTITY_SERVER_THUMBPRINT} : Present(var)

\* C6: with IDENTITY_ENDPOINT absent and MSI_ENDPOINT present, construction
\* selects AzureML if MSI_SECRET is present and CloudShell if it is absent,
\* whatever the workload-identity signals and the exclude flag are.
C6_MsiEndpointBranch ==
    (Built /\ Absent(IDENTITY_ENDPOINT) /\ Present(MSI_ENDPOINT))
        => Selected(IF Present(MSI_SECRET) THEN "AzureML" ELSE "CloudShell")

\* CloudShell selected over an available workload identity.
C6_Witness ==
    /\ Selected("CloudShell")
    /\ Absent(IDENTITY_ENDPOINT)
    /\ Present(MSI_ENDPOINT)
    /\ Absent(MSI_SECRET)
    /\ WorkloadIdentitySignals
    /\ ~kwargs.exclude

\* C7: with IDENTITY_ENDPOINT and MSI_ENDPOINT absent and WorkloadIdentity not
\* selected (a workload-identity variable absent, or the exclude flag set),
\* construction selects Imds and the facade holds a provider.
C7_ImdsFallback ==
    (/\ Built
     /\ Absent(IDENTITY_ENDPOINT)
     /\ Absent(MSI_ENDPOINT)
     /\ kwargs.exclude \/ \E var \in WORKLOAD_IDENTITY_VARS : Absent(var))
        => Selected("Imds") /\ credential # NoCredential

\* The empty signal set selected Imds.
C7_Witness ==
    /\ Selected("Imds")
    /\ \A var \in EnvVars : env[var] = None
    /\ credential # NoCredential

(***************************************************************************)
(* Properties of the constructed facade (checked under Spec)               *)
(***************************************************************************)
\* C1: get_token with no provider held fails with CredentialUnavailableError
\* and calls no provider; with a provider held it makes exactly one call, the
\* provider's get_token with the same scopes, and ends exactly as that call
\* ended: the provider's token, or the provider's exception.
C1_GetTokenForwardsOnce ==
    last.op = "get_token"
        => IF credential = NoCredential
           THEN /\ last.outcome = Raised("CredentialUnavailableError")
                /\ last.calls = <<>>
           ELSE /\ Len(last.calls) = 1
                /\ last.calls[1].method = "get_token"
                /\ last.calls[1].scopes = last.scopes
                /\ last.outcome = last.provided

\* The held provider failed with an error of its own, which reached the caller.
C1_Witness ==
    /\ last.op = "get_token"
    /\ credential # NoCredential
    /\ last.provided = Raised("ClientAuthenticationError")
    /\ last.outcome = Raised("ClientAuthenticationError")

\* C8: once construction has returned, no get_token, scope entry, scope exit,
\* close or change of the environment changes what the facade holds.
C8_ProviderFixed ==
    [][status = "constructed"
          => /\ status' = "constructed"
             /\ credential' = credential
             /\ conv' = conv
             /\ kwargs' = kwargs]_vars

\* A get_token after close, in an environment that would now resolve to
\* something else than the facade holds.
C8_Witness ==
    /\ status = "constructed"
    /\ closes # "never"
    /\ last.op = "get_token"
    /\ Resolve(env, conv, kwargs.exclude, kwargs.client_id).credential # credential

C10_ClaimsAndTenantIgnored ==
    (last.op = "get_token" /\ credential # NoCredential)
        => \A claims \in Claims, tenant_id \in TenantIds :
               last.calls = ForwardGetToken(last.scopes, claims, tenant_id)

====
